---- MODULE Spec2Model ----
(***************************************************************************)
(* A model of the two operational scripts of the repository:               *)
(*                                                                         *)
(*   .github/actions/deploy/deploy.py      DSPDeployer, the deployment     *)
(*                                         orchestration (Spec)            *)
(*   .github/scripts/check_integration_test.py                             *)
(*                                         the PR gate (SpecGate) and its  *)
(*                                         three regex functions (SpecRx)  *)
(*                                                                         *)
(* The deployer is a sequential program.  Its state is the position in     *)
(* deploy() (pc), the exception in flight (exc), the external commands     *)
(* issued so far (log), the exit code of the last child (rc) and the       *)
(* fields of the DSPDeployer object.  Every call of run_command is one     *)
(* step; the exit code of the child and the contents of the file system    *)
(* (os.path.exists) are chosen by the environment.  The executable of a    *)
(* command is assumed to exist and the script's own file operations to    *)
(* succeed: Popen, open() and yaml do not raise.                           *)
(***************************************************************************)
EXTENDS Integers, Sequences, FiniteSets, TLC

\* Pods a diagnostic "kubectl get pods" may list.
MaxPods == 1
\* Certificate manifests _create_operator_expected_certificates may write.
MaxCertManifests == 2

VARIABLES
    args,                       \* self.args after _convert_args_to_booleans
    pc,                         \* position in deploy()
    exc,                        \* exception in flight, "none" if none
    log,                        \* commands handed to run_command, in order
    rc,                         \* return code of the last child that exited
    steps,                      \* deployment steps begun, in order
    use_operator_deployment,    \* local of deploy(): {} until assigned, then {TRUE} or {FALSE}
    temp_dir,                   \* self.temp_dir: "none", "created", "removed"
    operator_repo_path,         \* self.operator_repo_path is set
    podsLeft,                   \* pods a diagnostic loop has still to visit
    invNs,                      \* namespace under investigation
    invRet,                     \* investigations still to run before the raise
    certsLeft,                  \* temp_cert_files still to apply
    alive,                      \* children started and not waited for to the end
    timedOut,                   \* readiness waits that exited non-zero
    result                      \* "running", "returned", "raised"

dvars == <<args, pc, exc, log, rc, steps, use_operator_deployment, temp_dir,
           operator_repo_path, podsLeft, invNs, invRet, certsLeft, alive, timedOut,
           result>>

ExitCodes == {0, 1}

Args == [github_repository      : {"", "opendatahub-io/data-science-pipelines"},
         multi_user             : BOOLEAN,
         proxy                  : BOOLEAN,
         cache_enabled          : BOOLEAN,
         deploy_pypi_server     : BOOLEAN,
         deploy_external_argo   : BOOLEAN,
         pod_to_pod_tls_enabled : BOOLEAN,
         forward_port           : BOOLEAN,
         storage_backend        : {"seaweedfs", "minio"}]

\* A command line, by what it does and the namespace it is aimed at.
C(c, n) == [cmd |-> c, ns |-> n]

\* The readiness waits: kubectl wait, and the until-loop under timeout(1).
WaitCmds == {"wait_operator_available", "wait_pypi_server_available",
             "wait_seaweedfs_available", "wait_seaweedfs_init_job",
             "wait_cert_manager_pods", "wait_dspa_deployment_created",
             "wait_dspa_deployment_available"}

----------------------------------------------------------------------------
(* run_command *)

\* The mutant of run_command that forgets check.
run_command_unchecked(check, timeout, code, hung) ==
    IF timeout /\ hung THEN "TimeoutExpired" ELSE "returned"

\* The mutant of run_command that checks the exit code whatever check says.
run_command_always_checked(check, timeout, code, hung) ==
    IF timeout /\ hung THEN "TimeoutExpired"
    ELSE IF code # 0 THEN "CalledProcessError"
    ELSE "returned"

\* How run_command ends for a child that exits with `code`, or that has
\* closed its output and not exited when the timeout expires (hung).
run_command(check, timeout, code, hung) ==
    IF timeout /\ hung THEN "TimeoutExpired"
    ELSE IF check /\ code # 0 THEN "CalledProcessError"
    ELSE "returned"

\* The TimeoutExpired handler re-raises without kill() or wait(): only the
\* handler of other exceptions kills the child.
ChildLeftRunning(timeout, hung) == timeout /\ hung

\* One call of run_command at a point of the program, for a child that
\* exits with `code` (or hangs): on a normal return the program goes on at
\* `ok` (code 0) or `fail`; an exception among `caught` is handled by the
\* caller, which goes on at `fail`; any other propagates to deploy().
ExecWith(c, check, timeout, code, hung, ok, fail, caught) ==
    LET out == run_command(check, timeout, code, hung) IN
    /\ log' = Append(log, c)
    /\ rc' = IF timeout /\ hung THEN -1 ELSE code    \* -1: no return code
    /\ alive' = alive + (IF ChildLeftRunning(timeout, hung) THEN 1 ELSE 0)
    /\ timedOut' = IF c.cmd \in WaitCmds /\ code # 0 THEN timedOut \cup {c.cmd}
                                                    ELSE timedOut
    /\ IF out = "returned"
         THEN pc' = (IF code = 0 THEN ok ELSE fail) /\ exc' = exc
         ELSE IF out \in caught
         THEN pc' = fail /\ exc' = exc
         ELSE pc' = "except" /\ exc' = out

Exec(c, check, ok, fail) ==
    \E code \in ExitCodes : ExecWith(c, check, FALSE, code, FALSE, ok, fail, {})

Raise(e) ==
    /\ pc' = "except"
    /\ exc' = e
    /\ UNCHANGED <<log, rc, alive, timedOut>>

Goto(p) ==
    /\ pc' = p
    /\ UNCHANGED <<exc, log, rc, alive, timedOut>>

Begin(step) == steps' = Append(steps, step)

Fields == <<args, use_operator_deployment, temp_dir, operator_repo_path,
            podsLeft, invNs, invRet, certsLeft, result>>

----------------------------------------------------------------------------
(* deploy(): the order of the calls *)

\* The mutant of the selector that follows its docstring only.
ShouldUseOperatorMultiUserOnly(a) == ~a.multi_user

_should_use_operator_deployment(a) ==
    IF a.multi_user THEN FALSE
    ELSE IF a.proxy THEN FALSE
    ELSE TRUE

\* The mutant of deploy() that falls through from the operator strategy into
\* the direct one.
AfterFallThrough(m) ==
    CASE m = "clone_operator_repo" ->
            IF use_operator_deployment = {TRUE} THEN "deploy_cert_manager"
                                                ELSE "deploy_pypi_server"
      [] m = "deploy_cert_manager"  -> "deploy_external_argo"
      [] m = "deploy_external_argo" -> "deploy_operator"
      [] m = "deploy_operator"      -> "apply_webhook_certs"
      [] m = "apply_webhook_certs"  -> "deploy_pypi_server"
      [] m = "deploy_pypi_server" ->
            IF use_operator_deployment = {TRUE} THEN "deploy_seaweedfs"
                                                ELSE "deploy_dsp_direct"
      [] m = "deploy_seaweedfs"     -> "_create_operator_expected_certificates"
      [] m = "_create_operator_expected_certificates" -> "deploy_dsp_via_operator"
      [] m = "deploy_dsp_via_operator" -> "deploy_dsp_direct"
      [] m = "deploy_dsp_direct"    -> "forward_port"
      [] m = "forward_port"         -> "completed"

\* The mutant of deploy() that deploys the operator before cert-manager.
AfterOperatorFirst(m) ==
    CASE m = "clone_operator_repo" ->
            IF use_operator_deployment = {TRUE} THEN "deploy_operator"
                                                ELSE "deploy_pypi_server"
      [] m = "deploy_operator"      -> "deploy_cert_manager"
      [] m = "deploy_cert_manager"  -> "deploy_external_argo"
      [] m = "deploy_external_argo" -> "apply_webhook_certs"
      [] m = "apply_webhook_certs"  -> "deploy_pypi_server"
      [] m = "deploy_pypi_server" ->
            IF use_operator_deployment = {TRUE} THEN "deploy_seaweedfs"
                                                ELSE "deploy_dsp_direct"
      [] m = "deploy_seaweedfs"     -> "_create_operator_expected_certificates"
      [] m = "_create_operator_expected_certificates" -> "deploy_dsp_via_operator"
      [] m = "deploy_dsp_via_operator" -> "forward_port"
      [] m = "deploy_dsp_direct"    -> "forward_port"
      [] m = "forward_port"         -> "completed"

\* The mutant of deploy() whose direct branch goes on into the operator
\* strategy once the repository is cloned.
AfterCloneIntoOperatorSteps(m) ==
    CASE m = "clone_operator_repo" -> "deploy_cert_manager"
      [] m = "deploy_cert_manager"  -> "deploy_external_argo"
      [] m = "deploy_external_argo" -> "deploy_operator"
      [] m = "deploy_operator"      -> "apply_webhook_certs"
      [] m = "apply_webhook_certs"  -> "deploy_pypi_server"
      [] m = "deploy_pypi_server" ->
            IF use_operator_deployment = {TRUE} THEN "deploy_seaweedfs"
                                                ELSE "deploy_dsp_direct"
      [] m = "deploy_seaweedfs"     -> "_create_operator_expected_certificates"
      [] m = "_create_operator_expected_certificates" -> "deploy_dsp_via_operator"
      [] m = "deploy_dsp_via_operator" -> "forward_port"
      [] m = "deploy_dsp_direct"    -> "forward_port"
      [] m = "forward_port"         -> "completed"

\* The statement of deploy() that follows the call of method m.
After(m) ==
    CASE m = "clone_operator_repo" ->
            IF use_operator_deployment = {TRUE} THEN "deploy_cert_manager"
                                              ELSE "deploy_pypi_server"
      [] m = "deploy_cert_manager"  -> "deploy_external_argo"
      [] m = "deploy_external_argo" -> "deploy_operator"
      [] m = "deploy_operator"      -> "apply_webhook_certs"
      [] m = "apply_webhook_certs"  -> "deploy_pypi_server"
      [] m = "deploy_pypi_server" ->
            IF use_operator_deployment = {TRUE} THEN "deploy_seaweedfs"
                                              ELSE "deploy_dsp_direct"
      [] m = "deploy_seaweedfs"     -> "_create_operator_expected_certificates"
      [] m = "_create_operator_expected_certificates" -> "deploy_dsp_via_operator"
      [] m = "deploy_dsp_via_operator" -> "forward_port"
      [] m = "deploy_dsp_direct"    -> "forward_port"
      [] m = "forward_port"         -> "completed"

----------------------------------------------------------------------------
(* The methods of DSPDeployer, one action each *)

SetupEnvironment ==
    \/ /\ pc = "setup_environment"
       /\ IF args.github_repository = ""
            THEN Raise("ValueError") /\ temp_dir' = temp_dir
            ELSE Goto("setup:create_namespace") /\ temp_dir' = "created"
       /\ UNCHANGED <<args, use_operator_deployment, operator_repo_path,
                      podsLeft, invNs, invRet, certsLeft, result, steps>>
    \/ /\ pc = "setup:create_namespace"
       /\ Exec(C("create_namespace", "deployment"), FALSE, "select_mode", "select_mode")
       /\ UNCHANGED <<Fields, steps>>

SelectMode ==
    /\ pc = "select_mode"
    /\ use_operator_deployment' = {_should_use_operator_deployment(args)}
    /\ Goto(IF _should_use_operator_deployment(args) THEN "clone_operator_repo"
            ELSE IF args.deploy_pypi_server THEN "clone_operator_repo"
            ELSE "deploy_dsp_direct")
    /\ UNCHANGED <<args, temp_dir, operator_repo_path, podsLeft, invNs, invRet,
                   certsLeft, result, steps>>

CloneOperatorRepo ==
    \/ /\ pc = "clone_operator_repo"
       /\ Begin("clone_operator_repo")
       /\ Goto("clone:git_clone")
       /\ UNCHANGED Fields
    \/ /\ pc = "clone:git_clone"
       /\ Exec(C("git_clone", ""), TRUE, "clone:git_checkout", "clone:git_checkout")
       /\ UNCHANGED <<Fields, steps>>
    \/ /\ pc = "clone:git_checkout"
       \* try: run_command(checkout) except CalledProcessError: print
       /\ \E code \in ExitCodes, makefile \in BOOLEAN :
            LET nxt == IF makefile THEN "clone:chmod" ELSE "clone:return" IN
            ExecWith(C("git_checkout", ""), TRUE, FALSE, code, FALSE, nxt, nxt,
                     {"CalledProcessError"})
       /\ UNCHANGED <<Fields, steps>>
    \/ /\ pc = "clone:chmod"
       /\ Exec(C("chmod_makefile", ""), FALSE, "clone:return", "clone:return")
       /\ UNCHANGED <<Fields, steps>>
    \/ /\ pc = "clone:return"
       /\ operator_repo_path' = TRUE
       /\ Goto(After("clone_operator_repo"))
       /\ UNCHANGED <<args, use_operator_deployment, temp_dir, podsLeft, invNs,
                      invRet, certsLeft, result, steps>>

DeployCertManager ==
    \/ /\ pc = "deploy_cert_manager"
       /\ Begin("deploy_cert_manager")
       /\ Goto("cm:create_namespace")
       /\ UNCHANGED Fields
    \/ /\ pc = "cm:create_namespace"
       /\ Exec(C("create_namespace", "cert-manager"), FALSE, "cm:apply", "cm:apply")
       /\ UNCHANGED <<Fields, steps>>
    \/ /\ pc = "cm:apply"
       /\ Exec(C("apply_cert_manager", ""), TRUE, "cm:wait", "cm:wait")
       /\ UNCHANGED <<Fields, steps>>
    \/ /\ pc = "cm:wait"
       /\ Exec(C("wait_cert_manager_pods", "cert-manager"), TRUE,
               After("deploy_cert_manager"), After("deploy_cert_manager"))
       /\ UNCHANGED <<Fields, steps>>

DeployExternalArgo ==
    \/ /\ pc = "deploy_external_argo"
       /\ IF ~args.deploy_external_argo
            THEN Goto(After("deploy_external_argo")) /\ UNCHANGED steps
            ELSE Goto("argo:make_update") /\ Begin("deploy_external_argo")
       /\ UNCHANGED Fields
    \/ /\ pc = "argo:make_update"
       /\ Exec(C("argo_manifests_update", ""), TRUE, "argo:apply_crds", "argo:apply_crds")
       /\ UNCHANGED <<Fields, steps>>
    \/ /\ pc = "argo:apply_crds"
       /\ Exec(C("apply_argo_crds", ""), TRUE,
               After("deploy_external_argo"), After("deploy_external_argo"))
       /\ UNCHANGED <<Fields, steps>>

DeployOperator ==
    \/ /\ pc = "deploy_operator"
       /\ IF ~operator_repo_path
            THEN Raise("ValueError") /\ UNCHANGED steps
            ELSE Goto("op:create_namespace") /\ Begin("deploy_operator")
       /\ UNCHANGED Fields
    \/ /\ pc = "op:create_namespace"
       /\ Exec(C("create_namespace", "operator"), FALSE, "op:make_install", "op:make_install")
       /\ UNCHANGED <<Fields, steps>>
    \/ /\ pc = "op:make_install"
       /\ \E nxt \in {"op:apply_crds", "op:apply_route_crd", "op:make_deploy"} :
            Exec(C("make_install", ""), TRUE, nxt, nxt)
       /\ UNCHANGED <<Fields, steps>>
    \/ /\ pc = "op:apply_crds"
       /\ \E nxt \in {"op:apply_route_crd", "op:make_deploy"} :
            Exec(C("apply_additional_crds", ""), TRUE, nxt, nxt)
       /\ UNCHANGED <<Fields, steps>>
    \/ /\ pc = "op:apply_route_crd"
       /\ Exec(C("apply_route_crd", ""), FALSE, "op:make_deploy", "op:make_deploy")
       /\ UNCHANGED <<Fields, steps>>
    \/ /\ pc = "op:make_deploy"
       /\ Exec(C("make_deploy_kind", ""), TRUE, "op:get_configmaps", "op:get_configmaps")
       /\ UNCHANGED <<Fields, steps>>
    \/ /\ pc = "op:get_configmaps"
       /\ Exec(C("get_configmaps", "operator"), FALSE,
               "op:get_configmap_1", "op:get_configmap_1")
       /\ UNCHANGED <<Fields, steps>>
    \/ /\ pc = "op:get_configmap_1"
       /\ Exec(C("get_configmap", "operator"), FALSE, "op:wait", "op:get_configmap_2")
       /\ UNCHANGED <<Fields, steps>>
    \/ /\ pc = "op:get_configmap_2"
       /\ Exec(C("get_configmap", "operator"), FALSE, "op:wait", "op:list_configmaps")
       /\ UNCHANGED <<Fields, steps>>
    \/ /\ pc = "op:list_configmaps"
       /\ Exec(C("list_configmaps", "operator"), FALSE, "op:wait", "op:wait")
       /\ UNCHANGED <<Fields, steps>>
    \/ /\ pc = "op:wait"
       /\ Exec(C("wait_operator_available", "operator"), FALSE,
               IF args.deploy_external_argo THEN "op:argo_patch"
                                            ELSE After("deploy_operator"),
               "opdiag:get_deployments")
       /\ UNCHANGED <<Fields, steps>>
    \/ /\ pc = "opdiag:get_deployments"
       /\ Exec(C("get_deployments", "operator"), FALSE, "opdiag:get_pods", "opdiag:get_pods")
       /\ UNCHANGED <<Fields, steps>>
    \/ /\ pc = "opdiag:get_pods"
       /\ Exec(C("get_pods", "operator"), FALSE, "opdiag:find_pods", "opdiag:find_pods")
       /\ UNCHANGED <<Fields, steps>>
    \/ /\ pc = "opdiag:find_pods"
       \* pod_result.stdout names n operator-manager pods
       /\ \E code \in ExitCodes, n \in 0..MaxPods :
            /\ ExecWith(C("get_pods", "operator"), FALSE, FALSE, code, FALSE,
                        IF n > 0 THEN "opdiag:describe" ELSE "opdiag:events",
                        "opdiag:events", {})
            /\ podsLeft' = IF code = 0 THEN n ELSE 0
       /\ UNCHANGED <<args, use_operator_deployment, temp_dir, operator_repo_path,
                      invNs, invRet, certsLeft, result, steps>>
    \/ /\ pc = "opdiag:describe"
       /\ Exec(C("describe_pod", "operator"), FALSE, "opdiag:pod_events", "opdiag:pod_events")
       /\ UNCHANGED <<Fields, steps>>
    \/ /\ pc = "opdiag:pod_events"
       /\ Exec(C("get_events", "operator"), FALSE, "opdiag:pod_logs", "opdiag:pod_logs")
       /\ UNCHANGED <<Fields, steps>>
    \/ /\ pc = "opdiag:pod_logs"
       /\ LET nxt == IF podsLeft > 1 THEN "opdiag:describe" ELSE "opdiag:events" IN
            Exec(C("logs", "operator"), FALSE, nxt, nxt)
       /\ podsLeft' = podsLeft - 1
       /\ UNCHANGED <<args, use_operator_deployment, temp_dir, operator_repo_path,
                      invNs, invRet, certsLeft, result, steps>>
    \/ /\ pc = "opdiag:events"
       /\ Exec(C("get_events", "operator"), FALSE, "opdiag:raise", "opdiag:raise")
       /\ UNCHANGED <<Fields, steps>>
    \/ /\ pc = "opdiag:raise"
       /\ Raise("RuntimeError")
       /\ UNCHANGED <<Fields, steps>>
    \/ /\ pc = "op:argo_patch"
       \* _configure_operator_for_external_argo
       /\ Exec(C("patch_operator_external_argo", "operator"), TRUE,
               "op:argo_rollout", "op:argo_rollout")
       /\ UNCHANGED <<Fields, steps>>
    \/ /\ pc = "op:argo_rollout"
       /\ Exec(C("rollout_status_operator", "operator"), TRUE,
               After("deploy_operator"), After("deploy_operator"))
       /\ UNCHANGED <<Fields, steps>>

ApplyWebhookCerts ==
    \/ /\ pc = "apply_webhook_certs"
       /\ IF ~operator_repo_path
            THEN Raise("ValueError") /\ UNCHANGED steps
            ELSE /\ Begin("apply_webhook_certs")
                 /\ \E exists \in BOOLEAN :
                      Goto(IF exists THEN "webhook:apply"
                                     ELSE After("apply_webhook_certs"))
       /\ UNCHANGED Fields
    \/ /\ pc = "webhook:apply"
       /\ Exec(C("apply_webhook_certs", "operator"), TRUE,
               After("apply_webhook_certs"), After("apply_webhook_certs"))
       /\ UNCHANGED <<Fields, steps>>

DeployPypiServer ==
    \/ /\ pc = "deploy_pypi_server"
       /\ IF ~args.deploy_pypi_server
            THEN Goto(After("deploy_pypi_server")) /\ UNCHANGED steps
            ELSE /\ Begin("deploy_pypi_server")
                 /\ IF ~operator_repo_path THEN Raise("ValueError")
                                           ELSE Goto("pypi:create_namespace")
       /\ UNCHANGED Fields
    \/ /\ pc = "pypi:create_namespace"
       /\ Exec(C("create_namespace", "test-pypiserver"), FALSE, "pypi:apply", "pypi:apply")
       /\ UNCHANGED <<Fields, steps>>
    \/ /\ pc = "pypi:apply"
       /\ Exec(C("apply_pypi_server", "test-pypiserver"), TRUE, "pypi:wait", "pypi:wait")
       /\ UNCHANGED <<Fields, steps>>
    \/ /\ pc = "pypi:wait"
       /\ Exec(C("wait_pypi_server_available", "test-pypiserver"), TRUE,
               "pypi:tls_pypi", "pypi:tls_pypi")
       /\ UNCHANGED <<Fields, steps>>
    \/ /\ pc = "pypi:tls_pypi"
       /\ Exec(C("apply_nginx_tls_config", "test-pypiserver"), FALSE,
               "pypi:tls_deployment", "pypi:tls_deployment")
       /\ UNCHANGED <<Fields, steps>>
    \/ /\ pc = "pypi:tls_deployment"
       /\ Exec(C("apply_nginx_tls_config", "deployment"), FALSE, "pypi:upload", "pypi:upload")
       /\ UNCHANGED <<Fields, steps>>
    \/ /\ pc = "pypi:upload"
       /\ Exec(C("package_upload", ""), TRUE,
               After("deploy_pypi_server"), After("deploy_pypi_server"))
       /\ UNCHANGED <<Fields, steps>>

DeploySeaweedfs ==
    \/ /\ pc = "deploy_seaweedfs"
       /\ IF args.storage_backend # "seaweedfs"
            THEN Goto(After("deploy_seaweedfs")) /\ UNCHANGED steps
            ELSE /\ Begin("deploy_seaweedfs")
                 /\ \E kustomization \in BOOLEAN :
                      IF kustomization THEN Goto("sw:apply") ELSE Raise("ValueError")
       /\ UNCHANGED Fields
    \/ /\ pc = "sw:apply"
       /\ Exec(C("apply_seaweedfs", "deployment"), TRUE, "sw:wait", "sw:wait")
       /\ UNCHANGED <<Fields, steps>>
    \/ /\ pc = "sw:wait"
       /\ Exec(C("wait_seaweedfs_available", "deployment"), TRUE, "sw:get_job", "sw:get_job")
       /\ UNCHANGED <<Fields, steps>>
    \/ /\ pc = "sw:get_job"
       /\ Exec(C("get_job", "deployment"), FALSE, "sw:get_pods", "sw:get_pods")
       /\ UNCHANGED <<Fields, steps>>
    \/ /\ pc = "sw:get_pods"
       /\ Exec(C("get_pods", "deployment"), FALSE, "sw:wait_job", "sw:wait_job")
       /\ UNCHANGED <<Fields, steps>>
    \/ /\ pc = "sw:wait_job"
       /\ Exec(C("wait_seaweedfs_init_job", "deployment"), FALSE,
               After("deploy_seaweedfs"), "sw:job_logs")
       /\ UNCHANGED <<Fields, steps>>
    \/ /\ pc = "sw:job_logs"
       /\ Exec(C("logs", "deployment"), FALSE,
               After("deploy_seaweedfs"), After("deploy_seaweedfs"))
       /\ UNCHANGED <<Fields, steps>>

CreateOperatorExpectedCertificates ==
    \/ /\ pc = "_create_operator_expected_certificates"
       /\ IF ~args.pod_to_pod_tls_enabled
            THEN /\ Goto(After("_create_operator_expected_certificates"))
                 /\ UNCHANGED <<steps, certsLeft>>
            ELSE /\ Begin("_create_operator_expected_certificates")
                 \* temp_cert_files holds n manifests read from the base directory
                 /\ \E n \in 0..MaxCertManifests :
                      /\ certsLeft' = n
                      /\ Goto(IF n > 0 THEN "certs:apply"
                              ELSE After("_create_operator_expected_certificates"))
       /\ UNCHANGED <<args, use_operator_deployment, temp_dir, operator_repo_path,
                      podsLeft, invNs, invRet, result>>
    \/ /\ pc = "certs:apply"
       /\ LET nxt == IF certsLeft > 1 THEN "certs:apply"
                     ELSE After("_create_operator_expected_certificates") IN
            Exec(C("apply_certificate", "deployment"), TRUE, nxt, nxt)
       /\ certsLeft' = certsLeft - 1
       /\ UNCHANGED <<args, use_operator_deployment, temp_dir, operator_repo_path,
                      podsLeft, invNs, invRet, result, steps>>

DeployDspViaOperator ==
    \/ /\ pc = "deploy_dsp_via_operator"
       /\ Begin("deploy_dsp_via_operator")
       /\ Goto("dspa:create_namespace")
       /\ UNCHANGED Fields
    \/ /\ pc = "dspa:create_namespace"
       /\ LET nxt == IF args.pod_to_pod_tls_enabled THEN "dspa:service_ca"
                                                    ELSE "dspa:apply" IN
            Exec(C("create_namespace", "deployment"), FALSE, nxt, nxt)
       /\ UNCHANGED <<Fields, steps>>
    \/ /\ pc = "dspa:service_ca"
       \* _create_openshift_service_ca_configmap: except Exception: print
       /\ \E code \in ExitCodes :
            ExecWith(C("apply_service_ca_configmap", "deployment"), TRUE, FALSE, code,
                     FALSE, "dspa:apply", "dspa:apply",
                     {"CalledProcessError", "TimeoutExpired"})
       /\ UNCHANGED <<Fields, steps>>
    \/ /\ pc = "dspa:apply"
       /\ Exec(C("apply_dspa", "deployment"), TRUE, "dspa:wait_created", "dspa:wait_created")
       /\ UNCHANGED <<Fields, steps>>
    \/ /\ pc = "dspa:wait_created"
       /\ \E code \in ExitCodes :
            /\ ExecWith(C("wait_dspa_deployment_created", "deployment"), FALSE, FALSE,
                        code, FALSE, "dspa:wait_available", "inv:get_pods_wide", {})
            /\ invNs' = IF code = 0 THEN invNs ELSE "deployment"
            /\ invRet' = IF code = 0 THEN invRet ELSE TRUE
       /\ UNCHANGED <<args, use_operator_deployment, temp_dir, operator_repo_path,
                      podsLeft, certsLeft, result, steps>>
    \/ /\ pc = "dspa:wait_available"
       /\ \E code \in ExitCodes :
            /\ ExecWith(C("wait_dspa_deployment_available", "deployment"), FALSE, FALSE,
                        code, FALSE, After("deploy_dsp_via_operator"),
                        "inv:get_pods_wide", {})
            /\ invNs' = IF code = 0 THEN invNs ELSE "deployment"
            /\ invRet' = IF code = 0 THEN invRet ELSE FALSE
       /\ UNCHANGED <<args, use_operator_deployment, temp_dir, operator_repo_path,
                      podsLeft, certsLeft, result, steps>>
    \/ /\ pc = "dspa:raise"
       /\ Raise("RuntimeError")
       /\ UNCHANGED <<Fields, steps>>

\* The mutant of _investigate_deployment_failure that collects nothing.
InvestigateNothing ==
    /\ pc = "inv:get_pods_wide"
    /\ Goto("dspa:raise")
    /\ UNCHANGED <<Fields, steps>>

\* _investigate_deployment_failure(invNs); invRet says that the operator
\* namespace is investigated next, before the caller raises.
InvestigateDeploymentFailure ==
    \/ /\ pc = "inv:get_pods_wide"
       /\ Exec(C("get_pods", invNs), FALSE, "inv:list_pods", "inv:list_pods")
       /\ UNCHANGED <<Fields, steps>>
    \/ /\ pc = "inv:list_pods"
       \* failed_pods has n entries, or is empty and running_pods has n
       /\ \E code \in ExitCodes, failed \in BOOLEAN, n \in 0..MaxPods :
            /\ ExecWith(C("get_pods", invNs), FALSE, FALSE, code, FALSE,
                        IF n = 0 THEN "inv:events"
                        ELSE IF failed THEN "inv:describe" ELSE "inv:running_logs",
                        "inv:events", {})
            /\ podsLeft' = IF code = 0 THEN n ELSE 0
       /\ UNCHANGED <<args, use_operator_deployment, temp_dir, operator_repo_path,
                      invNs, invRet, certsLeft, result, steps>>
    \/ /\ pc = "inv:describe"
       /\ Exec(C("describe_pod", invNs), FALSE, "inv:logs", "inv:logs")
       /\ UNCHANGED <<Fields, steps>>
    \/ /\ pc = "inv:logs"
       /\ Exec(C("logs", invNs), FALSE, "inv:logs_previous", "inv:logs_previous")
       /\ UNCHANGED <<Fields, steps>>
    \/ /\ pc = "inv:logs_previous"
       /\ LET nxt == IF podsLeft > 1 THEN "inv:describe" ELSE "inv:events" IN
            Exec(C("logs_previous", invNs), FALSE, nxt, nxt)
       /\ podsLeft' = podsLeft - 1
       /\ UNCHANGED <<args, use_operator_deployment, temp_dir, operator_repo_path,
                      invNs, invRet, certsLeft, result, steps>>
    \/ /\ pc = "inv:running_logs"
       /\ LET nxt == IF podsLeft > 1 THEN "inv:running_logs" ELSE "inv:events" IN
            Exec(C("logs", invNs), FALSE, nxt, nxt)
       /\ podsLeft' = podsLeft - 1
       /\ UNCHANGED <<args, use_operator_deployment, temp_dir, operator_repo_path,
                      invNs, invRet, certsLeft, result, steps>>
    \/ /\ pc = "inv:events"
       /\ LET nxt == IF invRet THEN "inv:get_pods_wide" ELSE "dspa:raise" IN
            Exec(C("get_events", invNs), FALSE, nxt, nxt)
       /\ invNs' = IF invRet THEN "operator" ELSE invNs
       /\ invRet' = FALSE
       /\ UNCHANGED <<args, use_operator_deployment, temp_dir, operator_repo_path,
                      podsLeft, certsLeft, result, steps>>

DeployDspDirect ==
    \/ /\ pc = "deploy_dsp_direct"
       /\ Begin("deploy_dsp_direct")
       /\ Goto("direct:deploy_kfp")
       /\ UNCHANGED Fields
    \/ /\ pc = "direct:deploy_kfp"
       \* run_command(cmd, timeout=1800, env=deploy_env)
       /\ \E code \in ExitCodes, hung \in BOOLEAN :
            ExecWith(C("deploy_kfp", ""), TRUE, TRUE, code, hung,
                     After("deploy_dsp_direct"), After("deploy_dsp_direct"), {})
       /\ UNCHANGED <<Fields, steps>>

ForwardPort ==
    \/ /\ pc = "forward_port"
       /\ IF ~args.forward_port
            THEN Goto(After("forward_port")) /\ UNCHANGED steps
            ELSE Goto("fwd:forward_port") /\ Begin("forward_port")
       /\ UNCHANGED Fields
    \/ /\ pc = "fwd:forward_port"
       /\ Exec(C("forward_port", "deployment"), TRUE,
               After("forward_port"), After("forward_port"))
       /\ UNCHANGED <<Fields, steps>>

\* print('Deployment completed successfully!')
DeployCompleted ==
    /\ pc = "completed"
    /\ Goto("finally")
    /\ UNCHANGED <<Fields, steps>>

\* The mutant of the handler that swallows the exception.
ReraiseSwallowed(e) == "none"

\* except Exception as e: print(...); raise
Reraise(e) == e

DeployExcept ==
    /\ pc = "except"
    /\ pc' = "finally"
    /\ exc' = Reraise(exc)
    /\ UNCHANGED <<log, rc, alive, timedOut, Fields, steps>>

\* The mutant of the cleanup that leaves the directory behind.
CleanupNothing(d) == d

\* finally: if self.temp_dir and os.path.exists(self.temp_dir): rmtree
Cleanup(d) == IF d = "created" THEN "removed" ELSE d

DeployFinally ==
    /\ pc = "finally"
    /\ temp_dir' = Cleanup(temp_dir)
    /\ result' = IF exc = "none" THEN "returned" ELSE "raised"
    /\ Goto("exit")
    /\ UNCHANGED <<args, use_operator_deployment, operator_repo_path, podsLeft,
                   invNs, invRet, certsLeft, steps>>

\* A child that run_command left behind exits by itself.
ChildExits ==
    /\ alive > 0
    /\ alive' = alive - 1
    /\ UNCHANGED <<args, pc, exc, log, rc, steps, use_operator_deployment, temp_dir,
                   operator_repo_path, podsLeft, invNs, invRet, certsLeft, timedOut,
                   result>>

\* The state after DSPDeployer(args), before deploy().
Constructed ==
    /\ pc = "setup_environment"
    /\ exc = "none"
    /\ log = <<>>
    /\ rc = 0
    /\ steps = <<>>
    /\ use_operator_deployment = {}
    /\ temp_dir = "none"
    /\ operator_repo_path = FALSE
    /\ podsLeft = 0
    /\ invNs = ""
    /\ invRet = FALSE
    /\ certsLeft = 0
    /\ alive = 0
    /\ timedOut = {}
    /\ result = "running"

\* cache_enabled is read by generate_dspa_yaml and deploy_dsp_direct only, to
\* build arguments: the runs of deploy() are taken with the parser's default.
DeployInit ==
    /\ args \in {a \in Args : a.cache_enabled}
    /\ Constructed

\* The runs of deploy() up to the selection of the mode, for every value of
\* every flag.
SelectInit ==
    /\ args \in Args
    /\ Constructed

\* A deployer that is not run: the parser's defaults.
DeployIdle ==
    /\ args = [github_repository |-> "opendatahub-io/data-science-pipelines",
               multi_user |-> FALSE, proxy |-> FALSE, cache_enabled |-> TRUE,
               deploy_pypi_server |-> FALSE, deploy_external_argo |-> FALSE,
               pod_to_pod_tls_enabled |-> FALSE, forward_port |-> TRUE,
               storage_backend |-> "seaweedfs"]
    /\ Constructed

----------------------------------------------------------------------------
(* Properties of deploy() *)

Last(s) == s[Len(s)]

Invoked(m) == \E i \in 1..Len(steps) : steps[i] = m

IsPrefix(s, t) == Len(s) <= Len(t) /\ \A i \in 1..Len(s) : s[i] = t[i]

\* The entries of the log after its i-th.
LogAfter(i) == {log[j] : j \in (i + 1)..Len(log)}

\* The position of the last issue of command c in the log (0: never issued).
LastIssue(c) ==
    LET at == {i \in 1..Len(log) : log[i].cmd = c} IN
    IF at = {} THEN 0 ELSE CHOOSE i \in at : \A j \in at : j <= i

Ended == pc \in {"except", "finally", "exit"}

LastExitedNonZero == log # <<>> /\ rc > 0

C2_StrategiesExclusive ==
    /\ ~(Invoked("deploy_dsp_via_operator") /\ Invoked("deploy_dsp_direct"))
    /\ result = "returned" =>
         /\ Invoked("deploy_dsp_via_operator") # Invoked("deploy_dsp_direct")
         /\ Invoked("deploy_dsp_via_operator") <=> use_operator_deployment = {TRUE}
         /\ Invoked("deploy_dsp_direct") <=> use_operator_deployment = {FALSE}

C2_Witness ==
    /\ result = "returned"
    /\ Invoked("deploy_dsp_direct")
    /\ args.proxy
    /\ ~args.multi_user

\* C3: a namespace-creation command that exits non-zero raises nothing: the
\* run has not ended and stands at a later point of the program, for each of
\* the namespaces the deployer creates.
C3_NamespaceCreationTolerated ==
    (LastExitedNonZero /\ Last(log).cmd = "create_namespace") =>
        /\ exc = "none"
        /\ ~Ended
        /\ result = "running"
        /\ Last(log).ns \in {"deployment", "operator", "test-pypiserver", "cert-manager"}

C3_Witness ==
    /\ log # <<>>
    /\ Last(log) = C("create_namespace", "test-pypiserver")
    /\ rc = 1
    /\ pc = "pypi:apply"
    /\ use_operator_deployment = {TRUE}

\* The commands issued with the default check=True.
CheckedCmds == {"git_clone", "git_checkout", "apply_cert_manager",
                "wait_cert_manager_pods", "argo_manifests_update", "apply_argo_crds",
                "make_install", "apply_additional_crds", "make_deploy_kind",
                "patch_operator_external_argo", "rollout_status_operator",
                "apply_webhook_certs", "apply_pypi_server",
                "wait_pypi_server_available", "package_upload", "apply_seaweedfs",
                "wait_seaweedfs_available", "apply_certificate",
                "apply_service_ca_configmap", "apply_dspa", "deploy_kfp",
                "forward_port"}

\* The checked commands whose caller handles the error.
HandledCmds == {"git_checkout", "apply_service_ca_configmap"}

Diagnosed == {"wait_operator_available", "wait_dspa_deployment_created",
              "wait_dspa_deployment_available"}

Undiagnosed == {"wait_pypi_server_available", "wait_seaweedfs_available",
                "wait_cert_manager_pods"}

\* Pods and events were listed after the i-th command.
ListedAfter(i) ==
    /\ \E e \in LogAfter(i) : e.cmd = "get_pods"
    /\ \E e \in LogAfter(i) : e.cmd = "get_events"

C5_EveryCheckedFailureAborts ==
    (LastExitedNonZero /\ Last(log).cmd \in CheckedCmds) =>
        /\ exc = "CalledProcessError"
        /\ Ended

\* C5 amended: so it is for every checked command but the two whose caller
\* handles the error: after a failed git checkout clone_operator_repo goes
\* on with the default branch, and after a failed apply of the service-CA
\* ConfigMap deploy_dsp_via_operator goes on to apply the DSPA.
C5_CheckedFailureAbortsUnlessHandled ==
    /\ (LastExitedNonZero /\ Last(log).cmd \in CheckedCmds \ HandledCmds) =>
         /\ exc = "CalledProcessError"
         /\ Ended
         /\ pc = "exit" => result = "raised"
         /\ Last(log).cmd # "forward_port" => ~Invoked("forward_port")
    /\ (LastExitedNonZero /\ Last(log).cmd \in HandledCmds) =>
         /\ exc = "none"
         /\ ~Ended

C5_Witness ==
    /\ pc = "exit"
    /\ result = "raised"
    /\ exc = "CalledProcessError"
    /\ Last(log).cmd = "apply_dspa"
    /\ \E i \in 1..Len(log) : log[i].cmd = "apply_service_ca_configmap"
    /\ args.forward_port

\* The steps of an operator-mode run, in the order of deploy().
ExpectedOperatorSteps(a) ==
    <<"clone_operator_repo", "deploy_cert_manager">>
    \o (IF a.deploy_external_argo THEN <<"deploy_external_argo">> ELSE <<>>)
    \o <<"deploy_operator", "apply_webhook_certs">>
    \o (IF a.deploy_pypi_server THEN <<"deploy_pypi_server">> ELSE <<>>)
    \o (IF a.storage_backend = "seaweedfs" THEN <<"deploy_seaweedfs">> ELSE <<>>)
    \o (IF a.pod_to_pod_tls_enabled
          THEN <<"_create_operator_expected_certificates">> ELSE <<>>)
    \o <<"deploy_dsp_via_operator">>
    \o (IF a.forward_port THEN <<"forward_port">> ELSE <<>>)

\* C6: in an operator-mode run the steps begun are at every moment a prefix
\* of the fixed order (so none is out of order, repeated, or begun without
\* its flag), no step begins once an exception is in flight, and a run that
\* returns has gone through all of them.
C6_OperatorStepOrder ==
    use_operator_deployment = {TRUE} =>
        /\ IsPrefix(steps, ExpectedOperatorSteps(args))
        /\ exc # "none" => Ended
        /\ result = "returned" => steps = ExpectedOperatorSteps(args)

C6_Witness ==
    /\ result = "returned"
    /\ use_operator_deployment = {TRUE}
    /\ Len(steps) = 10

\* C7: whenever run_command has returned or raised, the child it started has
\* terminated, so no child of the deployer outlives its call.
C7_NoChildOutlivesRunCommand == alive = 0

\* The steps of a direct-mode run, in the order of deploy().
ExpectedDirectSteps(a) ==
    (IF a.deploy_pypi_server THEN <<"clone_operator_repo", "deploy_pypi_server">> ELSE <<>>)
    \o <<"deploy_dsp_direct">>
    \o (IF a.forward_port THEN <<"forward_port">> ELSE <<>>)

\* C14: when deploy() has returned or raised, the directory made by
\* setup_environment is removed, whatever step failed; it is removed by the
\* finally clause and not before; a run whose setup_environment raised before
\* mkdtemp has no directory and removes none.
C14_TempDirRemoved ==
    /\ result # "running" =>
         temp_dir = IF args.github_repository = "" THEN "none" ELSE "removed"
    /\ temp_dir = "removed" => pc = "exit"
    /\ (temp_dir = "none" /\ pc # "setup_environment") =>
         (args.github_repository = "" /\ exc = "ValueError" /\ log = <<>>)

\* The directory was removed on the way out of a failed DSPA wait.
C14_Witness ==
    /\ pc = "exit"
    /\ result = "raised"
    /\ exc = "RuntimeError"
    /\ "wait_dspa_deployment_available" \in timedOut
    /\ temp_dir = "removed"

\* The last command of the two strategies' deploy steps.
FinalDeployCmds == {"wait_dspa_deployment_available", "deploy_kfp"}

\* C15: forward-port.sh is run only with the forward_port flag, right after
\* the strategy's deploy step has returned (its last command exited 0, no
\* exception in flight) and is the last command of the run; deploy() returns
\* only after all its steps, the last command having exited 0; a run in which
\* an exception was raised ends by raising it.
C15_ForwardPortAndCompletionOnlyAfterSuccess ==
    /\ pc = "fwd:forward_port" =>
         /\ args.forward_port
         /\ exc = "none"
         /\ rc = 0
         /\ Last(log).cmd \in FinalDeployCmds
    /\ \A i \in 1..Len(log) :
         log[i].cmd = "forward_port" =>
            /\ args.forward_port
            /\ i = Len(log)
            /\ i > 1
            /\ log[i - 1].cmd \in FinalDeployCmds
    /\ result = "returned" =>
         /\ exc = "none"
         /\ rc = 0
         /\ steps = IF use_operator_deployment = {TRUE} THEN ExpectedOperatorSteps(args)
                                                       ELSE ExpectedDirectSteps(args)
         /\ Last(log).cmd \in (IF args.forward_port THEN {"forward_port"} ELSE FinalDeployCmds)
    /\ result = "raised" => exc # "none"
    /\ (pc = "exit" /\ exc # "none") => result = "raised"

\* A direct-mode run forwarded the port and returned.
C15_Witness ==
    /\ result = "returned"
    /\ use_operator_deployment = {FALSE}
    /\ Last(log).cmd = "forward_port"
    /\ log[Len(log) - 1].cmd = "deploy_kfp"

RECURSIVE PerPodDiagnostics(_)
PerPodDiagnostics(n) ==
    IF n = 0 THEN <<>>
    ELSE <<C("describe_pod", "operator"), C("get_events", "operator"), C("logs", "operator")>>
         \o PerPodDiagnostics(n - 1)

\* What deploy_operator collects when n operator-manager pods are found.
OperatorDiagnostics(n) ==
    <<C("get_deployments", "operator"), C("get_pods", "operator"), C("get_pods", "operator")>>
    \o PerPodDiagnostics(n)
    \o <<C("get_events", "operator")>>

\* C16: once the operator availability wait has exited non-zero, the commands
\* that follow are the diagnostics in their order (deployments, pods, the
\* operator-manager pods, describe, events and logs of each, the namespace
\* events), whatever each of them exits with; the run then ends with
\* RuntimeError; the operator is not patched for external Argo, and neither
\* the webhook certificates nor the DSPA are applied.
C16_OperatorWaitFailure ==
    "wait_operator_available" \in timedOut =>
        LET w == LastIssue("wait_operator_available")
            after == SubSeq(log, w + 1, Len(log))
        IN  /\ \E n \in 0..MaxPods : IsPrefix(after, OperatorDiagnostics(n))
            /\ Ended => /\ exc = "RuntimeError"
                        /\ \E n \in 0..MaxPods : after = OperatorDiagnostics(n)
            /\ ~Ended => exc = "none"
            /\ pc = "exit" => result = "raised"
            /\ \A i \in 1..Len(log) :
                 log[i].cmd \notin {"patch_operator_external_argo", "rollout_status_operator",
                                    "apply_webhook_certs", "apply_dspa"}
            /\ ~Invoked("apply_webhook_certs")
            /\ ~Invoked("deploy_dsp_via_operator")

\* With external Argo requested, the wait failed, a pod was described and the
\* last diagnostic command itself failed.
C16_Witness ==
    /\ pc = "exit"
    /\ "wait_operator_available" \in timedOut
    /\ args.deploy_external_argo
    /\ \E i \in 1..Len(log) : log[i] = C("describe_pod", "operator")
    /\ rc = 1
    /\ exc = "RuntimeError"

RECURSIVE Repeat(_, _)
Repeat(s, n) == IF n = 0 THEN <<>> ELSE s \o Repeat(s, n - 1)

\* What _investigate_deployment_failure(ns) issues when it finds n pods,
\* failed or pending ones, or else running ones.
Investigation(ns, failed, n) ==
    <<C("get_pods", ns), C("get_pods", ns)>>
    \o Repeat(IF failed THEN <<C("describe_pod", ns), C("logs", ns), C("logs_previous", ns)>>
                        ELSE <<C("logs", ns)>>, n)
    \o <<C("get_events", ns)>>

Investigations(ns) == {Investigation(ns, f, n) : f \in BOOLEAN, n \in 0..MaxPods}

\* The commands issued after the last issue of command c.
IssuedAfter(c) == SubSeq(log, LastIssue(c) + 1, Len(log))

\* deploy_dsp_via_operator has returned.
DspaDeployed ==
    /\ use_operator_deployment = {TRUE}
    /\ \/ pc \in {"forward_port", "fwd:forward_port", "completed"}
       \/ pc \in {"finally", "exit"} /\ exc = "none"
       \/ Last(log).cmd = "forward_port"

\* C17: after a failed creation wait the deployment namespace and then the
\* operator namespace are investigated, RuntimeError is raised and the
\* availability wait is never issued; after a failed availability wait the
\* deployment namespace alone is investigated and RuntimeError is raised;
\* deploy_dsp_via_operator returns only after both waits exited 0.
C17_TwoPhaseWait ==
    /\ "wait_dspa_deployment_created" \in timedOut =>
         LET after == IssuedAfter("wait_dspa_deployment_created") IN
         /\ LastIssue("wait_dspa_deployment_available") = 0
         /\ \E a \in Investigations("deployment"), b \in Investigations("operator") :
              /\ IsPrefix(after, a \o b)
              /\ Ended => after = a \o b
         /\ Ended => exc = "RuntimeError"
         /\ ~Ended => exc = "none"
    /\ "wait_dspa_deployment_available" \in timedOut =>
         LET after == IssuedAfter("wait_dspa_deployment_available") IN
         /\ "wait_dspa_deployment_created" \notin timedOut
         /\ \E a \in Investigations("deployment") :
              /\ IsPrefix(after, a)
              /\ Ended => after = a
         /\ Ended => exc = "RuntimeError"
         /\ ~Ended => exc = "none"
    /\ DspaDeployed =>
         /\ LastIssue("wait_dspa_deployment_created") > 0
         /\ LastIssue("wait_dspa_deployment_available")
              = LastIssue("wait_dspa_deployment_created") + 1
         /\ timedOut \cap {"wait_dspa_deployment_created", "wait_dspa_deployment_available"} = {}

\* The deployment was created but did not become available: a running pod's
\* logs were fetched in the deployment namespace and the run raised.
C17_Witness ==
    /\ pc = "exit"
    /\ exc = "RuntimeError"
    /\ "wait_dspa_deployment_available" \in timedOut
    /\ IssuedAfter("wait_dspa_deployment_available") = Investigation("deployment", FALSE, 1)

\* C18: a failed SeaweedFS init-job wait is followed by the job's logs and
\* by the next steps of deploy(), the certificates and the DSPA, with no
\* exception, whatever the logs command exits with; a failed apply of the
\* SeaweedFS manifests or a failed availability wait of its deployment ends
\* the run with CalledProcessError before the DSPA step.
C18_SeaweedfsInitJobTolerated ==
    /\ "wait_seaweedfs_init_job" \in timedOut =>
         LET i == LastIssue("wait_seaweedfs_init_job") IN
         /\ i = Len(log) => (pc = "sw:job_logs" /\ exc = "none")
         /\ i < Len(log) => log[i + 1] = C("logs", "deployment")
         /\ i + 1 = Len(log) =>
              /\ exc = "none"
              /\ pc \in {"_create_operator_expected_certificates", "certs:apply",
                         "deploy_dsp_via_operator", "dspa:create_namespace"}
         /\ i + 1 < Len(log) =>
              /\ log[i + 2] \in {C("apply_certificate", "deployment"),
                                 C("create_namespace", "deployment")}
              /\ log[i + 2].cmd = "apply_certificate" => args.pod_to_pod_tls_enabled
         /\ (Ended /\ ~Invoked("deploy_dsp_via_operator")) =>
              (Last(log).cmd = "apply_certificate" /\ exc = "CalledProcessError")
    /\ (LastExitedNonZero /\ Last(log).cmd \in {"apply_seaweedfs", "wait_seaweedfs_available"}) =>
         /\ exc = "CalledProcessError"
         /\ Ended
         /\ ~Invoked("_create_operator_expected_certificates")
         /\ ~Invoked("deploy_dsp_via_operator")
         /\ pc = "exit" => result = "raised"

\* The init job did not complete and the run went on through the
\* certificates and the DSPA to its end.
C18_Witness ==
    /\ result = "returned"
    /\ "wait_seaweedfs_init_job" \in timedOut
    /\ Invoked("_create_operator_expected_certificates")
    /\ \E i \in 1..Len(log) : log[i].cmd = "apply_dspa"

\* The commands of clone_operator_repo and of deploy_pypi_server.
CloneCmds == {C("git_clone", ""), C("git_checkout", ""), C("chmod_makefile", "")}

PypiCmds == {C("create_namespace", "test-pypiserver"), C("apply_pypi_server", "test-pypiserver"),
             C("wait_pypi_server_available", "test-pypiserver"),
             C("apply_nginx_tls_config", "test-pypiserver"),
             C("apply_nginx_tls_config", "deployment"), C("package_upload", "")}

OperatorOnlySteps == {"deploy_cert_manager", "deploy_external_argo", "deploy_operator",
                      "apply_webhook_certs", "deploy_seaweedfs",
                      "_create_operator_expected_certificates", "deploy_dsp_via_operator"}

\* C19: in a direct-mode run the steps are clone_operator_repo and
\* deploy_pypi_server (only with deploy_pypi_server, and both before
\* deploy-kfp.sh), deploy_dsp_direct and forward_port; no step and no command
\* of the operator strategy occurs, whatever the other flags are.
C19_DirectModeSteps ==
    use_operator_deployment = {FALSE} =>
        /\ IsPrefix(steps, ExpectedDirectSteps(args))
        /\ \A m \in OperatorOnlySteps : ~Invoked(m)
        /\ \A i \in 2..Len(log) :
             log[i] \in CloneCmds \cup PypiCmds
                        \cup {C("deploy_kfp", ""), C("forward_port", "deployment")}
        /\ (\E i \in 1..Len(log) : log[i] \in CloneCmds \cup PypiCmds) => args.deploy_pypi_server
        /\ \A i \in 1..Len(log) :
             log[i].cmd = "deploy_kfp" =>
                /\ \A j \in (i + 1)..Len(log) : log[j].cmd = "forward_port"
                /\ args.deploy_pypi_server <=>
                     (Invoked("clone_operator_repo") /\ Invoked("deploy_pypi_server"))
                /\ args.deploy_pypi_server =>
                     /\ \E j \in 1..(i - 1) : log[j].cmd = "git_clone"
                     /\ log[i - 1].cmd = "package_upload"

\* A proxy run with every operator-mode flag set cloned the repository,
\* deployed the PyPI server and then ran deploy-kfp.sh.
C19_Witness ==
    /\ result = "returned"
    /\ use_operator_deployment = {FALSE}
    /\ args.proxy /\ ~args.multi_user
    /\ args.deploy_pypi_server /\ args.deploy_external_argo /\ args.pod_to_pod_tls_enabled
    /\ args.storage_backend = "seaweedfs"
    /\ steps = <<"clone_operator_repo", "deploy_pypi_server", "deploy_dsp_direct",
                 "forward_port">>

\* C20: the rule of the docstring of _should_use_operator_deployment: direct
\* deployment in multi-user mode, operator deployment in all other cases.
C20_DocumentedSelectionRule ==
    use_operator_deployment # {} => use_operator_deployment = {~args.multi_user}

\* The commands of deploy_external_argo and of
\* _configure_operator_for_external_argo.
ArgoCmds == {"argo_manifests_update", "apply_argo_crds", "patch_operator_external_argo",
             "rollout_status_operator"}

\* The commands deploy_operator issues up to its wait.
OperatorInstallCmds == {"make_install", "apply_additional_crds", "apply_route_crd",
                        "make_deploy_kind", "get_configmaps", "get_configmap",
                        "list_configmaps", "wait_operator_available"}

\* C21: with deploy_external_argo, the Argo manifests update and the Argo CRD
\* apply have both returned (exit 0) before deploy_operator issues its first
\* command; the operator is patched only directly after an operator wait that
\* exited 0, and the patch is followed by the rollout-status wait, which is
\* followed by the webhook certificates; without the flag no Argo command is
\* issued.
C21_ExternalArgoOrdering ==
    /\ ~args.deploy_external_argo => \A i \in 1..Len(log) : log[i].cmd \notin ArgoCmds
    /\ args.deploy_external_argo =>
         \A i \in 1..Len(log) :
            /\ log[i] = C("create_namespace", "operator") =>
                 /\ i > 2
                 /\ log[i - 1].cmd = "apply_argo_crds"
                 /\ log[i - 2].cmd = "argo_manifests_update"
            /\ log[i].cmd \in OperatorInstallCmds =>
                 \E j \in 1..(i - 1) : log[j].cmd = "apply_argo_crds"
            /\ log[i].cmd \in {"argo_manifests_update", "apply_argo_crds"} =>
                 \A j \in 1..(i - 1) : log[j].cmd \notin OperatorInstallCmds
    /\ (args.deploy_external_argo /\ pc = "deploy_operator") =>
         (Last(log).cmd = "apply_argo_crds" /\ rc = 0 /\ exc = "none")
    /\ \A i \in 1..Len(log) :
         /\ log[i].cmd = "patch_operator_external_argo" =>
              /\ i > 1
              /\ log[i - 1].cmd = "wait_operator_available"
              /\ "wait_operator_available" \notin timedOut
              /\ i < Len(log) => log[i + 1].cmd = "rollout_status_operator"
              /\ (i = Len(log) /\ rc = 0) => pc = "op:argo_rollout"
         /\ log[i].cmd = "rollout_status_operator" =>
              (i > 1 /\ log[i - 1].cmd = "patch_operator_external_argo")
         /\ log[i].cmd = "apply_webhook_certs" =>
              (args.deploy_external_argo => log[i - 1].cmd = "rollout_status_operator")

\* A run with external Argo went through the update, the CRDs, the operator,
\* the patch and the rollout, and returned.
C21_Witness ==
    /\ result = "returned"
    /\ args.deploy_external_argo
    /\ LastIssue("argo_manifests_update") > 0
    /\ LastIssue("apply_argo_crds") < LastIssue("make_install")
    /\ LastIssue("rollout_status_operator") = LastIssue("wait_operator_available") + 2

\* The commands of the TLS prerequisites of the operator strategy.
TlsPrerequisiteCmds == {"apply_certificate", "apply_service_ca_configmap"}

\* C22: with pod_to_pod_tls_enabled every certificate manifest written and
\* the service-CA ConfigMap are applied to the deployment namespace before
\* the DSPA; a certificate apply that exits non-zero ends the run before the
\* DSPA step; a service-CA apply that exits non-zero is swallowed and the
\* DSPA is applied next; without the flag neither is applied.
C22_TlsPrerequisites ==
    /\ ~args.pod_to_pod_tls_enabled =>
         \A i \in 1..Len(log) : log[i].cmd \notin TlsPrerequisiteCmds
    /\ \A i \in 1..Len(log) :
         /\ log[i].cmd \in TlsPrerequisiteCmds => log[i].ns = "deployment"
         /\ log[i].cmd = "apply_dspa" =>
              /\ log[i].ns = "deployment"
              /\ i > 1
              /\ \A j \in i..Len(log) : log[j].cmd \notin TlsPrerequisiteCmds
              /\ args.pod_to_pod_tls_enabled =>
                   /\ log[i - 1].cmd = "apply_service_ca_configmap"
                   /\ certsLeft = 0
              /\ ~args.pod_to_pod_tls_enabled => log[i - 1] = C("create_namespace", "deployment")
         /\ log[i].cmd = "apply_service_ca_configmap" =>
              /\ i > 1 /\ log[i - 1] = C("create_namespace", "deployment")
              /\ i < Len(log) => log[i + 1].cmd = "apply_dspa"
              /\ i = Len(log) => (pc = "dspa:apply" /\ exc = "none")
         /\ (log[i].cmd = "apply_certificate" /\ i < Len(log)) =>
              log[i + 1] \in {C("apply_certificate", "deployment"),
                              C("create_namespace", "deployment")}
    /\ (log # <<>> /\ Last(log).cmd = "apply_certificate") =>
         IF rc # 0
           THEN /\ Ended /\ exc = "CalledProcessError"
                /\ ~Invoked("deploy_dsp_via_operator")
                /\ pc = "exit" => result = "raised"
           ELSE /\ exc = "none"
                /\ IF certsLeft > 0 THEN pc = "certs:apply"
                   ELSE pc \in {"deploy_dsp_via_operator", "dspa:create_namespace"}
    /\ (args.pod_to_pod_tls_enabled /\ Invoked("deploy_dsp_via_operator")) => certsLeft = 0

\* A returned run with TLS whose certificate manifests were all applied and
\* whose service-CA apply exited non-zero before the DSPA was applied.
C22_Witness ==
    /\ result = "returned" /\ args.pod_to_pod_tls_enabled
    /\ \E i \in 3..Len(log) :
         /\ log[i].cmd = "apply_dspa"
         /\ log[i - 1].cmd = "apply_service_ca_configmap"
         /\ \E j \in 1..(i - 3) : log[j].cmd = "apply_certificate" /\ log[j + 1].cmd = "apply_certificate"


----------------------------------------------------------------------------
(***************************************************************************)
(* check_integration_test.py: the three regex functions.                   *)
(*                                                                         *)
(* A PR body is a sequence of atoms: the characters "-", " ", "[", "]",    *)
(* "x", "X", the line break, "t" for any other character, and each of the  *)
(* six keywords of the patterns, in lower or upper case, as one atom.      *)
(* None is the one-atom sequence <<"None">>.                               *)
(***************************************************************************)

\* Fragments a generated PR body is made of.
MaxFrags == 3

None == <<"None">>

NL == "\n"

Keywords == <<"integration", "tests", "openshift", "cluster", "odh", "nightly">>

UpperKeywords == <<"INTEGRATION", "TESTS", "OPENSHIFT", "CLUSTER", "ODH", "NIGHTLY">>

\* str.lower() of one atom, as re.IGNORECASE compares.
Lower(a) ==
    IF a = "X" THEN "x"
    ELSE IF \E k \in 1..Len(Keywords) : UpperKeywords[k] = a
    THEN Keywords[CHOOSE k \in 1..Len(Keywords) : UpperKeywords[k] = a]
    ELSE a

Fold(a, ignorecase) == IF ignorecase THEN Lower(a) ELSE a

\* The elements of a pattern: a character (class), ".*", and "\n?".
Lit(cs) == [k |-> "lit", c |-> cs]
DotStar == [k |-> "dotstar", c |-> {}]
OptNl == [k |-> "opt", c |-> {NL}]

\* '- \[<marks>\]'
Box(marks) == <<Lit({"-"}), Lit({" "}), Lit({"["}), Lit(marks), Lit({"]"})>>

\* '.*integration.*tests.*openshift.*cluster.*odh.*nightly'
KeywordChain ==
    <<DotStar, Lit({"integration"}), DotStar, Lit({"tests"}), DotStar, Lit({"openshift"}),
      DotStar, Lit({"cluster"}), DotStar, Lit({"odh"}), DotStar, Lit({"nightly"})>>

checkbox_pattern == Box({"x"}) \o KeywordChain

unchecked_pattern == Box({" "}) \o KeywordChain

remove_pattern == Box({"x", " "}) \o KeywordChain \o <<DotStar, OptNl>>

\* The first line break at or after position p, or the end of the body.
LineEnd(body, p) ==
    LET nls == {q \in p..Len(body) : body[q] = NL} IN
    IF nls = {} THEN Len(body) + 1 ELSE CHOOSE q \in nls : \A r \in nls : q <= r

\* The positions the matcher can stand at after element e, from those of P.
\* "." matches any character but the line break.
StepSet(e, body, P, ignorecase) ==
    CASE e.k = "lit" ->
            {p + 1 : p \in {q \in P : q <= Len(body) /\ Fold(body[q], ignorecase) \in e.c}}
      [] e.k = "dotstar" ->
            UNION {p..LineEnd(body, p) : p \in P}
      [] e.k = "opt" ->
            P \cup {p + 1 : p \in {q \in P : q <= Len(body) /\ body[q] \in e.c}}

\* The positions at which a match of elements i.. of pat can end, from P.
RECURSIVE Reach(_, _, _, _, _)
Reach(pat, body, i, P, ignorecase) ==
    IF i > Len(pat) \/ P = {} THEN P
    ELSE Reach(pat, body, i + 1, StepSet(pat[i], body, P, ignorecase), ignorecase)

CanMatch(pat, body, i, pos, ignorecase) == Reach(pat, body, i, {pos}, ignorecase) # {}

Max(S) == CHOOSE m \in S : \A n \in S : n <= m

\* The end of the match the backtracking matcher finds first from pos, for
\* elements i.. of pat: ".*" and "\n?" are greedy.  Needs CanMatch.
RECURSIVE MatchEnd(_, _, _, _, _)
MatchEnd(pat, body, i, pos, ignorecase) ==
    IF i > Len(pat) THEN pos
    ELSE CASE pat[i].k = "lit" -> MatchEnd(pat, body, i + 1, pos + 1, ignorecase)
           [] pat[i].k = "dotstar" ->
                MatchEnd(pat, body, i + 1,
                         Max({q \in pos..LineEnd(body, pos) :
                                CanMatch(pat, body, i + 1, q, ignorecase)}),
                         ignorecase)
           [] pat[i].k = "opt" ->
                IF /\ pos <= Len(body)
                   /\ body[pos] \in pat[i].c
                   /\ CanMatch(pat, body, i + 1, pos + 1, ignorecase)
                  THEN MatchEnd(pat, body, i + 1, pos + 1, ignorecase)
                  ELSE MatchEnd(pat, body, i + 1, pos, ignorecase)

\* bool(re.search(pat, body, flags))
Search(pat, body, ignorecase) ==
    \E pos \in 1..Len(body) : CanMatch(pat, body, 1, pos, ignorecase)

\* re.sub(pat, '', body, flags) from position pos on: the leftmost match is
\* dropped and the scan goes on after it (no match of these patterns is empty).
RECURSIVE Sub(_, _, _, _)
Sub(pat, body, pos, ignorecase) ==
    IF pos > Len(body) THEN <<>>
    ELSE IF CanMatch(pat, body, 1, pos, ignorecase)
    THEN Sub(pat, body, MatchEnd(pat, body, 1, pos, ignorecase), ignorecase)
    ELSE <<body[pos]>> \o Sub(pat, body, pos + 1, ignorecase)

Whitespace == {" ", NL}

\* str.strip()
Strip(s) ==
    LET ink == {i \in 1..Len(s) : s[i] \notin Whitespace} IN
    IF ink = {} THEN <<>>
    ELSE SubSeq(s, CHOOSE i \in ink : \A j \in ink : i <= j, Max(ink))

\* not pr_body
Falsy(b) == b = None \/ b = <<>>

\* The mutant without re.IGNORECASE.
CheckCaseSensitive(pr_body) ==
    IF Falsy(pr_body) THEN FALSE ELSE Search(checkbox_pattern, pr_body, FALSE)

check_integration_test_checkbox(pr_body) ==
    IF Falsy(pr_body) THEN FALSE ELSE Search(checkbox_pattern, pr_body, TRUE)

has_unchecked_integration_test_checkbox(pr_body) ==
    IF Falsy(pr_body) THEN FALSE ELSE Search(unchecked_pattern, pr_body, TRUE)

remove_integration_test_checkbox(pr_body) ==
    IF Falsy(pr_body) THEN pr_body ELSE Strip(Sub(remove_pattern, pr_body, 1, TRUE))

----------------------------------------------------------------------------
(* The regex functions applied to generated bodies *)

VARIABLES
    rx_body,        \* the argument
    rx_checked,     \* {} or {check_integration_test_checkbox(rx_body)}
    rx_unchecked,   \* {} or {has_unchecked_integration_test_checkbox(rx_body)}
    rx_removed      \* {} or {remove_integration_test_checkbox(rx_body)}

rxvars == <<rx_body, rx_checked, rx_unchecked, rx_removed>>

BoxChecked == <<"-", " ", "[", "x", "]">>

\* '- [x] Ran integration tests in an OpenShift cluster with latest ODH nightly'
CheckedLine ==
    BoxChecked \o <<" ", "integration", "tests", "t", "openshift", "cluster", "odh", "nightly">>

CheckedUpperLine ==
    <<"-", " ", "[", "X", "]", " ", "INTEGRATION", "TESTS", "t", "OPENSHIFT", "CLUSTER",
      "ODH", "NIGHTLY">>

UncheckedLine ==
    <<"-", " ", "[", " ", "]", " ", "integration", "tests", "t", "openshift", "cluster",
      "odh", "nightly">>

Frags == {CheckedLine, CheckedUpperLine, UncheckedLine,
          BoxChecked \o <<"integration", "tests", "openshift">>,
          <<"cluster", "odh", "nightly">>,
          <<"-", " ", "[", "x">>,
          <<"]">> \o Keywords,
          <<NL>>,
          <<"t">>}

RECURSIVE Concat(_)
Concat(ss) == IF ss = <<>> THEN <<>> ELSE Head(ss) \o Concat(Tail(ss))

\* None, and the bodies of up to n fragments.
Bodies(n) == {None} \cup {Concat(fs) : fs \in UNION {[1..k -> Frags] : k \in 0..n}}

\* Bodies in which a box is opened before a checklist line and closed, with
\* the keywords, on the next line.
JoinedBodies ==
    {<<"-", " ", "[", "x">> \o l \o <<NL>> \o <<"]">> \o Keywords : l \in {UncheckedLine, CheckedLine}}

RxInit ==
    /\ rx_body \in Bodies(MaxFrags) \cup JoinedBodies
    /\ rx_checked = {}
    /\ rx_unchecked = {}
    /\ rx_removed = {}

RxCheck ==
    /\ rx_checked = {}
    /\ rx_checked' = {check_integration_test_checkbox(rx_body)}
    /\ UNCHANGED <<rx_body, rx_unchecked, rx_removed>>

RxHasUnchecked ==
    /\ rx_checked # {}
    /\ rx_unchecked = {}
    /\ rx_unchecked' = {has_unchecked_integration_test_checkbox(rx_body)}
    /\ UNCHANGED <<rx_body, rx_checked, rx_removed>>

RxRemove ==
    /\ rx_unchecked # {}
    /\ rx_removed = {}
    /\ rx_removed' = {remove_integration_test_checkbox(rx_body)}
    /\ UNCHANGED <<rx_body, rx_checked, rx_unchecked>>

RxIdle ==
    /\ rx_body = None
    /\ rx_checked = {}
    /\ rx_unchecked = {}
    /\ rx_removed = {}

----------------------------------------------------------------------------
(* check_integration_test.py: main() and post_instruction_comment()

   One step per GitHub API call; every call either returns or raises.  The
   pull request lives on the server (pull_request_body, issue_comments); the
   run works on its local copy pr_body.  Runs do not overlap and the author
   edits the description only between runs. *)

MaxRuns == 2

VARIABLES
    pull_request_body,     \* pull_request.body on the server, None when unset
    issue_comments,        \* the comments on the pull request, oldest first
    token_user_type,       \* user.type of the account behind GITHUB_TOKEN
    github_event_action,   \* GITHUB_EVENT_ACTION of the current run
    environ,               \* the four required variables of the current run
    pr_body,               \* main()'s local pr_body
    checkbox_was_removed,  \* main()'s local flag
    gpc,                   \* where main() is
    exit_code,             \* {} while running, else {status}
    runs,                  \* runs started so far
    body0,                 \* pull_request_body when the current run started
    comments0,             \* issue_comments when the pull request was opened
    comments_before,       \* issue_comments when the current run started
    instruction_calls,     \* calls of post_instruction_comment so far
    calls                  \* API calls of the current run, [api, ok, arg]

gvars == <<pull_request_body, issue_comments, token_user_type, github_event_action, environ,
           pr_body, checkbox_was_removed, gpc, exit_code, runs, body0, comments0,
           comments_before, instruction_calls, calls>>

Comment(text, type) == [text |-> text, user_type |-> type]

\* "Integration Test Verification Required" in comment.body
HasMarker(c) == c.text = "instruction"

\* The variant that never finds the comment.
InstructionCommentNeverFound(cs) == FALSE

\* The loop of post_instruction_comment.
InstructionCommentExists(cs) ==
    \E i \in 1..Len(cs) : HasMarker(cs[i]) /\ cs[i].user_type = "Bot"

\* pull_request.body or ""
BodyOrEmpty(b) == IF b = None THEN <<>> ELSE b

HasChecklistLine(b) ==
    check_integration_test_checkbox(b) \/ has_unchecked_integration_test_checkbox(b)

Call(api, ok, arg) == [api |-> api, ok |-> ok, arg |-> arg]

Exit(status) ==
    /\ gpc' = "exited"
    /\ exit_code' = {status}

\* The descriptions a pull request is given.
GateBodies ==
    {None, <<>>, <<"t">>,
     CheckedLine, CheckedUpperLine, UncheckedLine,
     <<"t", NL>> \o CheckedLine \o <<NL, "t">>,
     <<"t", " ">> \o CheckedLine \o <<NL, "t">>,
     CheckedLine \o <<NL>> \o UncheckedLine,
     BoxChecked \o <<"integration", "tests", "openshift", NL, "cluster", "odh", "nightly">>,
     <<"-", " ", "[", "x">> \o UncheckedLine \o <<NL>> \o <<"]">> \o Keywords}

InitialComments ==
    {<<>>,
     <<Comment("instruction", "Bot")>>,
     <<Comment("instruction", "User")>>,
     <<Comment("other", "Bot")>>,
     <<Comment("other", "User"), Comment("instruction", "Bot")>>,
     <<Comment("instruction", "User"), Comment("instruction", "Bot")>>}

\* os.getenv of a variable that is not set.
Unset == "(unset)"

Environment(token, pr_number, repo_owner, repo_name) ==
    [GITHUB_TOKEN |-> token, PR_NUMBER |-> pr_number,
     REPO_OWNER |-> repo_owner, REPO_NAME |-> repo_name]

\* All four set; one of them unset; one of them empty; PR_NUMBER not a number.
Environments ==
    {Environment("tok", "7", "owner", "repo")}
    \cup {Environment(v, "7", "owner", "repo") : v \in {Unset, ""}}
    \cup {Environment("tok", v, "owner", "repo") : v \in {Unset, "", "seven"}}
    \cup {Environment("tok", "7", v, "repo") : v \in {Unset, ""}}
    \cup {Environment("tok", "7", "owner", v) : v \in {Unset, ""}}

\* bool(v) of a value of os.getenv
Truthy(v) == v \notin {Unset, ""}

\* The variant that asks for the token alone.
AllRequiredTokenOnly(env) == Truthy(env.GITHUB_TOKEN)

\* all([token, pr_number, repo_owner, repo_name])
AllRequired(env) ==
    /\ Truthy(env.GITHUB_TOKEN) /\ Truthy(env.PR_NUMBER)
    /\ Truthy(env.REPO_OWNER) /\ Truthy(env.REPO_NAME)

\* int(pr_number) returns
IsInteger(v) == v = "7"

\* main() gets past both checks.
EnvironmentAccepted(env) == AllRequired(env) /\ IsInteger(env.PR_NUMBER)

EventActions == {"synchronize", "opened", Unset}

GateInit ==
    /\ pull_request_body \in GateBodies
    /\ issue_comments \in InitialComments
    /\ token_user_type \in {"Bot", "User"}
    /\ github_event_action = "opened"
    /\ environ = Environment("tok", "7", "owner", "repo")
    /\ pr_body = <<>>
    /\ checkbox_was_removed = FALSE
    /\ gpc = "exited"
    /\ exit_code = {}
    /\ runs = 0
    /\ body0 = pull_request_body
    /\ comments0 = issue_comments
    /\ comments_before = issue_comments
    /\ instruction_calls = 0
    /\ calls = <<>>

\* main() up to the creation of the client: the environment checks.
GateStart ==
    /\ gpc = "exited"
    /\ runs < MaxRuns
    /\ runs' = runs + 1
    /\ body0' = pull_request_body
    /\ comments_before' = issue_comments
    /\ calls' = <<>>
    /\ pr_body' = <<>>
    /\ checkbox_was_removed' = FALSE
    /\ \E env \in Environments, action \in EventActions :
        /\ github_event_action' = action
        /\ environ' = env
        /\ IF EnvironmentAccepted(env)
           THEN gpc' = "get_pull" /\ exit_code' = {}
           ELSE Exit(1)
    /\ UNCHANGED <<pull_request_body, issue_comments, token_user_type, comments0,
                   instruction_calls>>

\* The variant that takes every event for a push of new commits.
GetPullAlwaysSynchronize ==
    /\ gpc = "get_pull"
    /\ \E ok \in BOOLEAN :
        /\ calls' = Append(calls, Call("get_pull", ok, <<>>))
        /\ IF ok
           THEN /\ pr_body' = BodyOrEmpty(pull_request_body)
                /\ gpc' = IF HasChecklistLine(BodyOrEmpty(pull_request_body))
                          THEN "edit" ELSE "check"
                /\ UNCHANGED exit_code
           ELSE /\ Exit(1)
                /\ UNCHANGED pr_body
    /\ UNCHANGED <<pull_request_body, issue_comments, token_user_type, environ, github_event_action,
                   checkbox_was_removed, runs, body0, comments0,
                   comments_before, instruction_calls>>

\* get_repo / get_pull, then the synchronize test on the fetched body.
GetPull ==
    /\ gpc = "get_pull"
    /\ \E ok \in BOOLEAN :
        /\ calls' = Append(calls, Call("get_pull", ok, <<>>))
        /\ IF ok
           THEN /\ pr_body' = BodyOrEmpty(pull_request_body)
                /\ gpc' = IF /\ github_event_action = "synchronize"
                             /\ HasChecklistLine(BodyOrEmpty(pull_request_body))
                          THEN "edit" ELSE "check"
                /\ UNCHANGED exit_code
           ELSE /\ Exit(1)
                /\ UNCHANGED pr_body
    /\ UNCHANGED <<pull_request_body, issue_comments, token_user_type, environ, github_event_action,
                   checkbox_was_removed, runs, body0, comments0,
                   comments_before, instruction_calls>>

\* The variant whose removal comment is posted outside the try block, also
\* after a failed edit.
EditBodyThenCommentAnyway ==
    /\ gpc = "edit"
    /\ LET updated_body == remove_integration_test_checkbox(pr_body) IN
       \E ok \in BOOLEAN :
        /\ calls' = Append(calls, Call("edit", ok, updated_body))
        /\ pull_request_body' = IF ok THEN updated_body ELSE pull_request_body
        /\ checkbox_was_removed' = ok
    /\ gpc' = "removal_comment"
    /\ UNCHANGED <<issue_comments, token_user_type, environ, github_event_action, pr_body,
                   exit_code, runs, body0, comments0, comments_before, instruction_calls>>

\* pull_request.edit(body=updated_body)
EditBody ==
    /\ gpc = "edit"
    /\ LET updated_body == remove_integration_test_checkbox(pr_body) IN
       \E ok \in BOOLEAN :
        /\ calls' = Append(calls, Call("edit", ok, updated_body))
        /\ IF ok
           THEN /\ pull_request_body' = updated_body
                /\ checkbox_was_removed' = TRUE
                /\ gpc' = "removal_comment"
           ELSE /\ gpc' = "check"
                /\ UNCHANGED <<pull_request_body, checkbox_was_removed>>
    /\ UNCHANGED <<issue_comments, token_user_type, environ, github_event_action, pr_body,
                   exit_code, runs, body0, comments0,
                   comments_before, instruction_calls>>

\* pull_request.create_issue_comment(removal_comment)
PostRemovalComment ==
    /\ gpc = "removal_comment"
    /\ \E ok \in BOOLEAN :
        /\ calls' = Append(calls, Call("create_removal_comment", ok, <<>>))
        /\ issue_comments' = IF ok THEN Append(issue_comments, Comment("removal", token_user_type))
                             ELSE issue_comments
    /\ gpc' = "refresh"
    /\ UNCHANGED <<pull_request_body, token_user_type, environ, github_event_action, pr_body,
                   checkbox_was_removed, exit_code, runs, body0, comments0,
                   comments_before, instruction_calls>>

\* The second get_pull, after a removal.
RefreshBody ==
    /\ gpc = "refresh"
    /\ \E ok \in BOOLEAN :
        /\ calls' = Append(calls, Call("refresh", ok, <<>>))
        /\ pr_body' = IF ok THEN BodyOrEmpty(pull_request_body) ELSE pr_body
    /\ gpc' = "check"
    /\ UNCHANGED <<pull_request_body, issue_comments, token_user_type, environ, github_event_action,
                   checkbox_was_removed, exit_code, runs, body0, comments0,
                   comments_before, instruction_calls>>

\* The variant with the test of checkbox_was_removed inverted.
FinalCheckInverted ==
    /\ gpc = "check"
    /\ IF check_integration_test_checkbox(pr_body)
       THEN Exit(0) /\ UNCHANGED instruction_calls
       ELSE IF ~checkbox_was_removed
       THEN Exit(1) /\ UNCHANGED instruction_calls
       ELSE /\ gpc' = "get_issue_comments"
            /\ instruction_calls' = instruction_calls + 1
            /\ UNCHANGED exit_code
    /\ UNCHANGED <<pull_request_body, issue_comments, token_user_type, environ, github_event_action,
                   pr_body, checkbox_was_removed, runs, body0, comments0,
                   comments_before, calls>>

\* has_checkbox and the exits that follow it.
FinalCheck ==
    /\ gpc = "check"
    /\ IF check_integration_test_checkbox(pr_body)
       THEN Exit(0) /\ UNCHANGED instruction_calls
       ELSE IF checkbox_was_removed
       THEN Exit(1) /\ UNCHANGED instruction_calls
       ELSE /\ gpc' = "get_issue_comments"
            /\ instruction_calls' = instruction_calls + 1
            /\ UNCHANGED exit_code
    /\ UNCHANGED <<pull_request_body, issue_comments, token_user_type, environ, github_event_action,
                   pr_body, checkbox_was_removed, runs, body0, comments0,
                   comments_before, calls>>

\* post_instruction_comment: get_issue_comments and the search; an exception
\* here is not caught and ends the interpreter with status 1.
GetIssueComments ==
    /\ gpc = "get_issue_comments"
    /\ \E ok \in BOOLEAN :
        /\ calls' = Append(calls, Call("get_issue_comments", ok, <<>>))
        /\ IF ok /\ ~InstructionCommentExists(issue_comments)
           THEN gpc' = "create_instruction_comment" /\ UNCHANGED exit_code
           ELSE Exit(1)
    /\ UNCHANGED <<pull_request_body, issue_comments, token_user_type, environ, github_event_action,
                   pr_body, checkbox_was_removed, runs, body0, comments0,
                   comments_before, instruction_calls>>

\* post_instruction_comment: create_issue_comment, then main()'s sys.exit(1).
CreateInstructionComment ==
    /\ gpc = "create_instruction_comment"
    /\ \E ok \in BOOLEAN :
        /\ calls' = Append(calls, Call("create_instruction_comment", ok, <<>>))
        /\ issue_comments' = IF ok THEN Append(issue_comments, Comment("instruction", token_user_type))
                             ELSE issue_comments
    /\ Exit(1)
    /\ UNCHANGED <<pull_request_body, token_user_type, environ, github_event_action, pr_body,
                   checkbox_was_removed, runs, body0, comments0,
                   comments_before, instruction_calls>>

\* Between two runs the author rewrites the description.
AuthorEditsBody ==
    /\ gpc = "exited"
    /\ runs \in 1..(MaxRuns - 1)
    /\ calls # <<>>
    /\ \E b \in {CheckedLine, UncheckedLine, <<"t">>} :
        /\ b # pull_request_body
        /\ pull_request_body' = b
    /\ calls' = <<>>
    /\ UNCHANGED <<issue_comments, token_user_type, environ, github_event_action, pr_body,
                   checkbox_was_removed, gpc, exit_code, runs, body0, comments0,
                   comments_before, instruction_calls>>

\* No run of the gate.
GateIdle ==
    /\ pull_request_body = None
    /\ issue_comments = <<>>
    /\ token_user_type = "Bot"
    /\ github_event_action = "opened"
    /\ environ = Environment("tok", "7", "owner", "repo")
    /\ pr_body = <<>>
    /\ checkbox_was_removed = FALSE
    /\ gpc = "exited"
    /\ exit_code = {}
    /\ runs = 0
    /\ body0 = None
    /\ comments0 = <<>>
    /\ comments_before = <<>>
    /\ instruction_calls = 0
    /\ calls = <<>>

----------------------------------------------------------------------------
(* Properties of the checkbox functions *)

\* The lines of a body: the pieces between its newlines.
RECURSIVE SplitLines(_)
SplitLines(s) ==
    IF \A i \in 1..Len(s) : s[i] # NL THEN <<s>>
    ELSE LET i == CHOOSE j \in 1..Len(s) : s[j] = NL /\ \A k \in 1..(j - 1) : s[k] # NL
         IN  <<SubSeq(s, 1, i - 1)>> \o SplitLines(SubSeq(s, i + 1, Len(s)))

\* The words ks occur in s in this order, anything in between, in any case.
RECURSIVE InOrder(_, _)
InOrder(ks, s) ==
    IF ks = <<>> THEN TRUE
    ELSE IF s = <<>> THEN FALSE
    ELSE IF Lower(Head(s)) = Head(ks) THEN InOrder(Tail(ks), Tail(s))
    ELSE InOrder(ks, Tail(s))

\* The line l holds the box '- [m]' (m one of marks, in any case) followed by
\* the six keywords in order.
IsChecklistLine(l, marks) ==
    \E i \in 1..(Len(l) - 4) :
        /\ <<l[i], l[i + 1], l[i + 2], l[i + 4]>> = <<"-", " ", "[", "]">>
        /\ Lower(l[i + 3]) \in marks
        /\ InOrder(Keywords, SubSeq(l, i + 5, Len(l)))

HasCheckedLine(b) ==
    /\ b # None
    /\ \E n \in 1..Len(SplitLines(b)) : IsChecklistLine(SplitLines(b)[n], {"x"})

\* C8: check_integration_test_checkbox returns True exactly for the bodies
\* that have a line in which '- [x]' (or '- [X]') is followed by integration,
\* tests, openshift, cluster, odh, nightly in this order and in any letter
\* case; in particular it returns False for None, for the empty body and for a
\* body whose keywords do not all follow the box on one line.
C8_CheckedLineDetected ==
    rx_checked # {} => rx_checked = {HasCheckedLine(rx_body)}

\* An upper-case checked line below another line was detected; a box whose
\* keywords continue on the next line was not.
C8_Witness ==
    /\ rx_body = <<"t", NL>> \o CheckedUpperLine
    /\ rx_checked = {TRUE}

\* s is a subsequence of t.
RECURSIVE IsSubsequence(_, _)
IsSubsequence(s, t) ==
    IF s = <<>> THEN TRUE
    ELSE IF t = <<>> THEN FALSE
    ELSE IF Head(s) = Head(t) THEN IsSubsequence(Tail(s), Tail(t))
    ELSE IsSubsequence(s, Tail(t))

\* The lines of b without a box followed by the keywords.
OtherLines(b) == SelectSeq(SplitLines(b), LAMBDA l : ~IsChecklistLine(l, {"x", " "}))

\* r holds no checklist line for either function.
C23_Complete(r) ==
    /\ ~check_integration_test_checkbox(r)
    /\ ~has_unchecked_integration_test_checkbox(r)

C23_Idempotent(r) == remove_integration_test_checkbox(r) = r

\* The lines ls without the blank ones, each without the white space around it
\* (remove_integration_test_checkbox strips its result).
Trimmed(ls) ==
    LET inked == SelectSeq(ls, LAMBDA l : Strip(l) # <<>>) IN
    [i \in 1..Len(inked) |-> Strip(inked[i])]

\* The other lines of b are lines of r, in their order.
C23_LinesPreserved(b, r) == IsSubsequence(Trimmed(OtherLines(b)), Trimmed(SplitLines(r)))

\* C23: for every body b, r = remove_integration_test_checkbox(b) has no
\* checklist line (both detection functions return False on r), removing
\* again returns r, and the lines of b that are not checklist lines are
\* lines of r in the same order.
C23_RemovalCompleteIdempotent ==
    \A r \in rx_removed :
        /\ C23_Complete(r)
        /\ C23_Idempotent(r)
        /\ C23_LinesPreserved(rx_body, r)

----------------------------------------------------------------------------
(* Properties of the gate *)

CountWhere(cs, P(_)) == Cardinality({i \in 1..Len(cs) : P(cs[i])})

IsBotInstruction(c) == HasMarker(c) /\ c.user_type = "Bot"

IsRemoval(c) == c.text = "removal"

CallsOf(api) == {i \in 1..Len(calls) : calls[i].api = api}

\* The current run fetched the pull request.
Fetched == calls # <<>> /\ calls[1].api = "get_pull" /\ calls[1].ok

\* C9: on a pull request that has one instruction comment by a Bot user, no
\* run of the gate reaches create_issue_comment in post_instruction_comment,
\* and after any number of runs the pull request has the instruction comments
\* it had, one of them by a Bot.
C9_InstructionCommentIdempotent ==
    CountWhere(comments0, IsBotInstruction) = 1 =>
        /\ gpc # "create_instruction_comment"
        /\ CallsOf("create_instruction_comment") = {}
        /\ CountWhere(issue_comments, IsBotInstruction) = 1
        /\ CountWhere(issue_comments, HasMarker) = CountWhere(comments0, HasMarker)

\* post_instruction_comment ran twice and found the one Bot comment both times.
C9_Witness ==
    /\ comments0 = <<Comment("instruction", "Bot")>>
    /\ instruction_calls = 2
    /\ gpc = "exited"
    /\ calls[Len(calls)] = Call("get_issue_comments", TRUE, <<>>)
    /\ CountWhere(issue_comments, HasMarker) = 1

\* The body without its checklist lines, checked or unchecked.
RECURSIVE JoinLines(_)
JoinLines(ls) ==
    IF ls = <<>> THEN <<>>
    ELSE IF Len(ls) = 1 THEN ls[1]
    ELSE ls[1] \o <<NL>> \o JoinLines(Tail(ls))

WithoutChecklistLines(b) ==
    JoinLines(SelectSeq(SplitLines(b), LAMBDA l : ~IsChecklistLine(l, {"x", " "})))

ContainsChecklistLine(b) ==
    /\ b # None
    /\ \E n \in 1..Len(SplitLines(b)) : IsChecklistLine(SplitLines(b)[n], {"x", " "})

RemovalCommentsPosted ==
    CountWhere(issue_comments, IsRemoval) - CountWhere(comments_before, IsRemoval)

\* C10 as stated: a synchronize run on a body with the checklist line ends
\* with the body edited to the body without these lines and with one removal
\* comment posted; a run with another action makes no edit.
C10_SynchronizeRemovesAndComments ==
    /\ (gpc = "exited" /\ Fetched /\ github_event_action = "synchronize"
            /\ ContainsChecklistLine(body0)) =>
        /\ pull_request_body = WithoutChecklistLines(body0)
        /\ RemovalCommentsPosted = 1
    /\ github_event_action # "synchronize" => CallsOf("edit") = {}

\* C10, amended: a synchronize run that fetched a body matching the checked
\* or the unchecked pattern calls edit once, with
\* remove_integration_test_checkbox of the fetched body.  After a successful
\* edit the server holds that body and one removal comment is attempted, and
\* posted unless the call raises; after a failed edit the body is as it was
\* and no removal comment is attempted.  Any other run makes no edit and
\* posts no removal comment.
C10_SynchronizeEditsOnceThenComments ==
    LET fetched  == BodyOrEmpty(body0)
        due      == github_event_action = "synchronize" /\ HasChecklistLine(fetched)
        edits    == CallsOf("edit")
        removals == CallsOf("create_removal_comment")
        running  == calls # <<>>
    IN  /\ (Fetched /\ due /\ gpc \notin {"get_pull", "edit"}) => Cardinality(edits) = 1
        /\ ~due => edits = {} /\ removals = {}
        /\ Cardinality(edits) <= 1 /\ Cardinality(removals) <= 1
        /\ \A i \in edits :
            /\ i = 2
            /\ calls[i].arg = remove_integration_test_checkbox(fetched)
            /\ calls[i].ok => pull_request_body = calls[i].arg
            /\ ~calls[i].ok => removals = {}
            /\ (calls[i].ok /\ gpc # "removal_comment") => removals = {3}
        /\ \A i \in removals : i = 3 /\ 2 \in edits /\ calls[2].ok
        /\ running => RemovalCommentsPosted = Cardinality({i \in removals : calls[i].ok})
        /\ (running /\ \A i \in edits : ~calls[i].ok) => pull_request_body = body0

\* A synchronize run removed the checked line between two other lines and
\* posted its removal comment.
C10_Witness ==
    /\ gpc = "exited"
    /\ github_event_action = "synchronize"
    /\ body0 = <<"t", NL>> \o CheckedLine \o <<NL, "t">>
    /\ pull_request_body = <<"t", NL, "t">>
    /\ RemovalCommentsPosted = 1
    /\ exit_code = {1}

\* C11: a synchronize run on a pull request whose body has a checked
\* checklist line never exits 0, whatever its API calls do.
C11_SynchronizeNeverPasses ==
    (github_event_action = "synchronize" /\ HasCheckedLine(body0)) => exit_code # {0}

\* C12: a run with another action than synchronize on a body without a
\* checked checklist line exits 1 and nothing else; once it has fetched the
\* pull request it calls post_instruction_comment (get_issue_comments is its
\* next API call), edits nothing, and exits 1 also when get_issue_comments or
\* create_issue_comment raises.
C12_UncheckedPostsInstructionAndFails ==
    (github_event_action # "synchronize" /\ ~HasCheckedLine(body0) /\ runs > 0) =>
        /\ exit_code # {0}
        /\ gpc = "exited" => exit_code = {1}
        /\ (gpc = "exited" /\ Fetched) =>
            /\ Len(calls) >= 2
            /\ calls[2].api = "get_issue_comments"
            /\ CallsOf("edit") = {}
            /\ \A i \in 3..Len(calls) : calls[i].api = "create_instruction_comment"

\* The unchecked line was found, the instruction comment could not be posted
\* and the run exited 1.
C12_Witness ==
    /\ gpc = "exited"
    /\ github_event_action = "opened"
    /\ body0 = UncheckedLine
    /\ calls = <<Call("get_pull", TRUE, <<>>), Call("get_issue_comments", TRUE, <<>>),
                 Call("create_instruction_comment", FALSE, <<>>)>>
    /\ exit_code = {1}

\* C13: a run with another action than synchronize that fetched a body with a
\* checked checklist line exits 0 after that one API call: no edit, no
\* comment, the pull request as it was.  Every run that fetched the pull
\* request reaches the final check and exits 0 if
\* check_integration_test_checkbox holds of its pr_body, else 1.
C13_CheckedPassesUntouched ==
    (gpc = "exited" /\ Fetched) =>
        /\ exit_code = IF check_integration_test_checkbox(pr_body) THEN {0} ELSE {1}
        /\ (github_event_action # "synchronize" /\ HasCheckedLine(body0)) =>
            /\ exit_code = {0}
            /\ calls = <<Call("get_pull", TRUE, <<>>)>>
            /\ pull_request_body = body0
            /\ issue_comments = comments_before

\* An upper-case checked line passed on an opened event.
C13_Witness ==
    /\ gpc = "exited"
    /\ github_event_action = "opened"
    /\ body0 = CheckedUpperLine
    /\ Fetched
    /\ exit_code = {0}

\* The instruction comments this run has posted.
InstructionCommentsPosted ==
    CountWhere(issue_comments, HasMarker) - CountWhere(comments_before, HasMarker)

\* post_instruction_comment has been entered by this run.
InstructionCalled ==
    \/ gpc \in {"get_issue_comments", "create_instruction_comment"}
    \/ CallsOf("get_issue_comments") # {}

\* C24: a run whose edit succeeded posts no other comment than the removal
\* comment and never enters post_instruction_comment; a synchronize run that
\* fetched a body without a checklist line makes no edit, posts no removal
\* comment, enters post_instruction_comment, which posts the instruction
\* comment if no Bot instruction comment exists, and exits 1; no run posts a
\* removal comment and an instruction comment.
C24_CommentSelection ==
    LET removed  == \E i \in CallsOf("edit") : calls[i].ok
        removals == CallsOf("create_removal_comment")
        posted   == Len(issue_comments) - Len(comments_before)
        plain    == /\ Fetched /\ github_event_action = "synchronize"
                    /\ ~HasChecklistLine(BodyOrEmpty(body0))
    IN  /\ removed =>
            /\ checkbox_was_removed
            /\ ~InstructionCalled
            /\ InstructionCommentsPosted = 0
            /\ posted = RemovalCommentsPosted
            /\ RemovalCommentsPosted = Cardinality({i \in removals : calls[i].ok})
            /\ gpc # "removal_comment" => removals = {3}
        /\ plain =>
            /\ CallsOf("edit") = {} /\ removals = {}
            /\ RemovalCommentsPosted = 0
            /\ pull_request_body = body0
            /\ exit_code # {0}
            /\ gpc # "check" => InstructionCalled
            /\ gpc = "exited" =>
                /\ exit_code = {1}
                /\ calls[2].api = "get_issue_comments"
                /\ IF calls[2].ok /\ ~InstructionCommentExists(comments_before)
                   THEN /\ Len(calls) = 3 /\ calls[3].api = "create_instruction_comment"
                        /\ InstructionCommentsPosted = (IF calls[3].ok THEN 1 ELSE 0)
                   ELSE Len(calls) = 2 /\ InstructionCommentsPosted = 0
        /\ ~(RemovalCommentsPosted > 0 /\ InstructionCommentsPosted > 0)
        /\ RemovalCommentsPosted \in {0, 1} /\ InstructionCommentsPosted \in {0, 1}

\* A synchronize run removed the unchecked line, posted the removal comment
\* and exited 1 on a pull request without an instruction comment.
C24_Witness ==
    /\ gpc = "exited"
    /\ github_event_action = "synchronize"
    /\ body0 = UncheckedLine
    /\ comments_before = <<>>
    /\ issue_comments = <<Comment("removal", token_user_type)>>
    /\ checkbox_was_removed
    /\ exit_code = {1}

\* This run has left the pull request as it found it.
PullRequestUntouched ==
    /\ pull_request_body = body0
    /\ issue_comments = comments_before
    /\ CallsOf("edit") = {}
    /\ CallsOf("create_removal_comment") = {}
    /\ CallsOf("create_instruction_comment") = {}

\* One of the four variables is unset or empty, or PR_NUMBER is no number.
InputRejectable ==
    \/ \E k \in {"GITHUB_TOKEN", "PR_NUMBER", "REPO_OWNER", "REPO_NAME"} : environ[k] \in {Unset, ""}
    \/ environ.PR_NUMBER = "seven"

\* C25: a run in which GITHUB_TOKEN, PR_NUMBER, REPO_OWNER or REPO_NAME is
\* unset or empty, or PR_NUMBER is not an integer, exits 1 before any API
\* call; a run whose get_repo / get_pull raises exits 1 after that one call;
\* neither edits the body or posts a comment.  A run with all four set gets
\* to the API whatever GITHUB_EVENT_ACTION is, also when it is unset.
C25_InputValidation ==
    /\ (runs > 0 /\ InputRejectable) =>
        /\ gpc = "exited" /\ exit_code = {1}
        /\ calls = <<>>
        /\ PullRequestUntouched
    /\ (calls # <<>> /\ ~calls[1].ok) =>
        /\ calls = <<Call("get_pull", FALSE, <<>>)>>
        /\ gpc = "exited" /\ exit_code = {1}
        /\ PullRequestUntouched
    /\ gpc # "exited" => ~InputRejectable
    /\ (gpc # "exited" /\ github_event_action = Unset) =>
        /\ calls # <<>> => calls[1].api = "get_pull"
        /\ CallsOf("edit") = {}

\* The repository owner was empty on a synchronize event for a pull request
\* with a checked line: the run exited 1 at once.
C25_Witness ==
    /\ runs = 1
    /\ environ.REPO_OWNER = ""
    /\ github_event_action = "synchronize"
    /\ body0 = CheckedLine
    /\ gpc = "exited"
    /\ exit_code = {1}

----------------------------------------------------------------------------
(* The specifications *)

vars == <<dvars, rxvars, gvars>>

DeployerOnly == UNCHANGED <<rxvars, gvars>>

RegexOnly == UNCHANGED <<dvars, gvars>>

GateOnly == UNCHANGED <<dvars, rxvars>>

\* The runs of deploy().
Init ==
    /\ DeployInit
    /\ RxIdle
    /\ GateIdle

Next ==
    \/ SetupEnvironment /\ DeployerOnly
    \/ SelectMode /\ DeployerOnly
    \/ CloneOperatorRepo /\ DeployerOnly
    \/ DeployCertManager /\ DeployerOnly
    \/ DeployExternalArgo /\ DeployerOnly
    \/ DeployOperator /\ DeployerOnly
    \/ ApplyWebhookCerts /\ DeployerOnly
    \/ DeployPypiServer /\ DeployerOnly
    \/ DeploySeaweedfs /\ DeployerOnly
    \/ CreateOperatorExpectedCertificates /\ DeployerOnly
    \/ DeployDspViaOperator /\ DeployerOnly
    \/ InvestigateDeploymentFailure /\ DeployerOnly
    \/ DeployDspDirect /\ DeployerOnly
    \/ ForwardPort /\ DeployerOnly
    \/ DeployCompleted /\ DeployerOnly
    \/ DeployExcept /\ DeployerOnly
    \/ DeployFinally /\ DeployerOnly
    \/ ChildExits /\ DeployerOnly

Spec == Init /\ [][Next]_vars

SelectNext ==
    \/ SetupEnvironment /\ DeployerOnly
    \/ SelectMode /\ DeployerOnly
    \/ DeployExcept /\ DeployerOnly
    \/ DeployFinally /\ DeployerOnly

InitSelect ==
    /\ SelectInit
    /\ RxIdle
    /\ GateIdle

SpecSelect == InitSelect /\ [][SelectNext]_vars

\* The regex functions, applied to every generated body.
RxNext ==
    \/ RxCheck /\ RegexOnly
    \/ RxHasUnchecked /\ RegexOnly
    \/ RxRemove /\ RegexOnly

InitRx ==
    /\ RxInit
    /\ DeployIdle
    /\ GateIdle

SpecRx == InitRx /\ [][RxNext]_vars

\* The runs of the gate on one pull request.
GateNext ==
    \/ GateStart /\ GateOnly
    \/ GetPull /\ GateOnly
    \/ EditBody /\ GateOnly
    \/ PostRemovalComment /\ GateOnly
    \/ RefreshBody /\ GateOnly
    \/ FinalCheck /\ GateOnly
    \/ GetIssueComments /\ GateOnly
    \/ CreateInstructionComment /\ GateOnly
    \/ AuthorEditsBody /\ GateOnly

InitGate ==
    /\ GateInit
    /\ DeployIdle
    /\ RxIdle

SpecGate == InitGate /\ [][GateNext]_vars

====
